---- MODULE Spec2Model ----
(***************************************************************************)
(* A model of src/batch_download.py: the date-range splitter, the chunked  *)
(* per-symbol download, the batch over a list of symbols and the reading   *)
(* of the symbol-list file.                                                *)
(*                                                                         *)
(* Representation.                                                         *)
(*  - A date string "YYYY-MM-DD" is the record [y, m, d] of its three      *)
(*    numeric fields; datetime.strptime turns it into a datetime, modelled *)
(*    by its proleptic Gregorian ordinal (date.toordinal), and strftime    *)
(*    turns an ordinal back into the three fields.                         *)
(*  - A Python str that the program builds (a symbol, an output path) is a *)
(*    sequence; the empty string is the empty sequence.                    *)
(*  - A DataFrame is [columns, rows]; a row is a function on the columns.  *)
(*  - A call's outcome is [kind |-> "return", value] or                    *)
(*    [kind |-> "raise", value |-> exception name].                        *)
(***************************************************************************)
EXTENDS Integers, Sequences, FiniteSets, TLC

VARIABLES
    entry,         \* which function of the module the run calls
    pc,            \* position of the run in the code
    ret,           \* outcome of the entry call, once the run is done
    start_date,    \* split_date_range / download_symbol_data_chunked: start_date
    end_date,      \* ... end_date
    chunk_days,    \* split_date_range: chunk_days
    config_module, \* the config module the run is given
    source,        \* what the historical-data client may do on a fetch in this run
    faults,        \* which collaborators may fail in this run
    symbol_mapper, \* download_symbol_data_chunked: symbol_mapper ("None" when omitted)
    symbol,        \* the symbol being downloaded
    date_chunks,   \* download_symbol_data_chunked: date_chunks
    chunk_i,       \* ... i of enumerate(date_chunks, 1)
    all_data,      \* ... all_data
    output_file,   \* outcome of the last call of download_symbol_data_chunked
    fs,            \* the file system: directories, and files with their content
    list_file,     \* download_from_list_file: the file at file_path
    symbols,       \* download_multiple_symbols: symbols
    sym_i,         \* ... position of the for loop in symbols (1-based)
    results,       \* ... results
    events,        \* history: calls of the data client, sleeps, writes, in order
    fetched,       \* history: per chunk of the call, what the data client did and
                   \* what download_chunk_data returned
    failure,       \* history: the collaborator that failed in the call ("none")
    fs_at_call     \* history: the file system when the call of
                   \* download_symbol_data_chunked began

splitVars == <<start_date, end_date, chunk_days>>
envVars == <<config_module, source, faults, list_file>>
callVars == <<symbol_mapper, symbol, date_chunks, chunk_i, all_data, output_file,
              fetched, failure, fs_at_call>>
batchVars == <<symbols, sym_i, results>>
vars == <<entry, pc, ret, splitVars, envVars, callVars, batchVars, fs, events>>

(***************************************************************************)
(* Bounds of the model.                                                    *)
(***************************************************************************)
\* Dates drawn for split_date_range lie at most this many days after an anchor.
MaxSpan == 6
\* Small values of chunk_days run from 1 to this.
MaxChunkDays == 4
\* A direct call of download_symbol_data_chunked covers up to this many chunks.
MaxChunks == 3
\* A batch's date range covers up to this many chunks.
MaxBatchChunks == 2
\* A batch has up to this many symbols.
MaxSymbols == 2
\* A symbol-list file has up to this many characters.
MaxFileLen == 4

(***************************************************************************)
(* Constants of the Python runtime the code relies on.                     *)
(***************************************************************************)
\* datetime.max.toordinal(): the ordinal of 9999-12-31.
MAXORDINAL == 3652059
\* timedelta(days=n) needs |n| <= 999999999.
MAX_DELTA_DAYS == 999999999

\* The chunk size download_symbol_data_chunked passes to split_date_range.
CHUNK_DAYS == 30

Return(v) == [kind |-> "return", value |-> v]
Raise(e) == [kind |-> "raise", value |-> e]
Pending == [kind |-> "pending", value |-> "pending"]

(***************************************************************************)
(* The calendar of datetime (Lib/datetime.py: _is_leap, _days_before_year, *)
(* _days_in_month, _days_before_month, _ymd2ord, _ord2ymd), which strptime,*)
(* strftime and the datetime arithmetic of split_date_range go through.    *)
(***************************************************************************)
_is_leap(year) == year % 4 = 0 /\ (year % 100 # 0 \/ year % 400 = 0)

_days_before_year(year) ==
    LET y == year - 1 IN y * 365 + (y \div 4) - (y \div 100) + (y \div 400)

_days_in_month(year, month) ==
    IF month = 2 /\ _is_leap(year) THEN 29
    ELSE <<31, 28, 31, 30, 31, 30, 31, 31, 30, 31, 30, 31>>[month]

_days_before_month(year, month) ==
    <<0, 31, 59, 90, 120, 151, 181, 212, 243, 273, 304, 334>>[month]
        + (IF month > 2 /\ _is_leap(year) THEN 1 ELSE 0)

_ymd2ord(year, month, day) ==
    _days_before_year(year) + _days_before_month(year, month) + day

_ord2ymd(ordinal) ==
    LET n0 == ordinal - 1
        n400 == n0 \div 146097
        r400 == n0 % 146097
        n100 == r400 \div 36524
        r100 == r400 % 36524
        n4 == r100 \div 1461
        r4 == r100 % 1461
        n1 == r4 \div 365
        n == r4 % 365
        year == n400 * 400 + 1 + n100 * 100 + n4 * 4 + n1
        leapyear == n1 = 3 /\ (n4 # 24 \/ n100 = 3)
        month0 == (n + 50) \div 32
        preceding0 == <<0, 31, 59, 90, 120, 151, 181, 212, 243, 273, 304, 334>>[month0]
                          + (IF month0 > 2 /\ leapyear THEN 1 ELSE 0)
        month == IF preceding0 > n THEN month0 - 1 ELSE month0
        preceding == IF preceding0 > n
                     THEN preceding0
                              - (<<31, 28, 31, 30, 31, 30, 31, 31, 30, 31, 30, 31>>[month]
                                     + (IF month = 2 /\ leapyear THEN 1 ELSE 0))
                     ELSE preceding0
    IN  IF n1 = 4 \/ n100 = 4
        THEN [y |-> year - 1, m |-> 12, d |-> 31]
        ELSE [y |-> year, m |-> month, d |-> n - preceding + 1]

\* datetime.strptime(s, "%Y-%m-%d"): the datetime of a date string, or ValueError
\* when the fields name no day of the calendar.
strptime(s) ==
    IF /\ s.y >= 1 /\ s.y <= 9999
       /\ s.m >= 1 /\ s.m <= 12
       /\ s.d >= 1 /\ s.d <= _days_in_month(s.y, s.m)
    THEN Return(_ymd2ord(s.y, s.m, s.d))
    ELSE Raise("ValueError")

\* dt.strftime("%Y-%m-%d")
strftime(dt) == _ord2ymd(dt)

\* dt + timedelta(days=days): OverflowError when the timedelta or the sum is out
\* of range.
add_days(dt, days) ==
    IF days > MAX_DELTA_DAYS \/ days < -MAX_DELTA_DAYS THEN Raise("OverflowError")
    ELSE IF dt + days < 1 \/ dt + days > MAXORDINAL THEN Raise("OverflowError")
    ELSE Return(dt + days)

min(a, b) == IF b < a THEN b ELSE a

(***************************************************************************)
(* split_date_range                                                        *)
(***************************************************************************)
\* The while loop of split_date_range, from current_start with the chunks so far.
RECURSIVE split_loop(_, _, _, _)
split_loop(current_start, end_dt, days, chunks) ==
    IF ~(current_start <= end_dt) THEN Return(chunks)
    ELSE LET stepped == add_days(current_start, days - 1) IN
         IF stepped.kind = "raise" THEN stepped
         ELSE LET current_end == min(stepped.value, end_dt)
                  chunk == <<strftime(current_start), strftime(current_end)>>
                  next_start == add_days(current_end, 1)
              IN  IF next_start.kind = "raise" THEN next_start
                  ELSE split_loop(next_start.value, end_dt, days,
                                  Append(chunks, chunk))

split_date_range(start, end, days) ==
    LET start_dt == strptime(start)
        end_dt == strptime(end)
    IN  IF start_dt.kind = "raise" THEN start_dt
        ELSE IF end_dt.kind = "raise" THEN end_dt
        ELSE split_loop(start_dt.value, end_dt.value, days, <<>>)

(***************************************************************************)
(* DataFrames, as far as the code looks at them.                           *)
(***************************************************************************)
\* pd.DataFrame()
EmptyFrame == [columns |-> {}, rows |-> <<>>]

\* df.empty: an axis of length 0.
empty(df) == df.columns = {} \/ df.rows = <<>>

RECURSIVE concat_rows(_)
concat_rows(frames) ==
    IF frames = <<>> THEN <<>>
    ELSE Head(frames).rows \o concat_rows(Tail(frames))

\* pd.concat(frames, ignore_index=True) of frames of one schema: the rows of the
\* frames, in the order of the frames and of the rows of each.
concat(frames) ==
    [columns |-> UNION { frames[i].columns : i \in DOMAIN frames },
     rows |-> concat_rows(frames)]

\* rows without its k-th element
Without(rows, k) ==
    [i \in 1 .. Len(rows) - 1 |-> IF i < k THEN rows[i] ELSE rows[i + 1]]

\* The orders df.sort_values(by) can leave the rows in: ascending in column by,
\* rows of equal key in any order (the default sort, quicksort, is not stable).
RECURSIVE sorted_orders(_, _)
sorted_orders(rows, by) ==
    IF rows = <<>> THEN { <<>> }
    ELSE UNION { { <<rows[k]>> \o rest : rest \in sorted_orders(Without(rows, k), by) } :
                 k \in { j \in DOMAIN rows :
                           \A l \in DOMAIN rows : rows[j][by] <= rows[l][by] } }

\* A variant of sort_by_time that prefers the date column to the timestamp.
sort_by_date_first(combined_data) ==
    IF "date" \in combined_data.columns
    THEN { [combined_data EXCEPT !.rows = r] :
             r \in sorted_orders(combined_data.rows, "date") }
    ELSE IF "timestamp" \in combined_data.columns
    THEN { [combined_data EXCEPT !.rows = r] :
             r \in sorted_orders(combined_data.rows, "timestamp") }
    ELSE { combined_data }

\* The frames lines 102-105 can produce from combined_data.
sort_by_time(combined_data) ==
    IF "timestamp" \in combined_data.columns
    THEN { [combined_data EXCEPT !.rows = r] :
             r \in sorted_orders(combined_data.rows, "timestamp") }
    ELSE IF "date" \in combined_data.columns
    THEN { [combined_data EXCEPT !.rows = r] :
             r \in sorted_orders(combined_data.rows, "date") }
    ELSE { combined_data }

(***************************************************************************)
(* The historical-data client (HistoricalDataDownloader), an external      *)
(* collaborator: on one fetch it raises, returns None, or returns a frame. *)
(***************************************************************************)
Project(row, cols) == [c \in cols |-> row[c]]

MakeFrame(cols, rows) ==
    [columns |-> cols, rows |-> [i \in DOMAIN rows |-> Project(rows[i], cols)]]

\* Sample rows: the first frame is descending in timestamp and ascending in date;
\* the second ties with it in both.
RowsA == << [timestamp |-> 2, date |-> 1, close |-> 1],
            [timestamp |-> 1, date |-> 2, close |-> 2] >>
RowsB == << [timestamp |-> 1, date |-> 1, close |-> 3] >>

\* The content of an output file left by an earlier run.
StaleFrame == MakeFrame({"timestamp", "close"},
                        << [timestamp |-> 0, date |-> 0, close |-> 0] >>)

\* The column sets a run's data may have.
Schemas == { {"timestamp", "date", "close"}, {"timestamp", "close"},
             {"date", "close"}, {"close"} }

ClientRaises == [kind |-> "raise", frame |-> EmptyFrame]
ClientNone == [kind |-> "none", frame |-> EmptyFrame]
ClientFrame(df) == [kind |-> "frame", frame |-> df]

\* Everything the client may do on a fetch, for data of columns cols.
Behaviours(cols) ==
    { ClientRaises, ClientNone, ClientFrame(MakeFrame(cols, <<>>)),
      ClientFrame(MakeFrame(cols, RowsA)), ClientFrame(MakeFrame(cols, RowsB)) }

\* The same, with one sample frame only.
BatchBehaviours ==
    Behaviours({"timestamp", "close"})
        \ { ClientFrame(MakeFrame({"timestamp", "close"}, RowsB)) }

\* A client that answers every fetch with the same frame or with nothing.
CalmBehaviours == { ClientFrame(EmptyFrame),
                    ClientFrame(MakeFrame({"timestamp", "close"}, RowsA)) }

\* The collaborators whose failure the model can inject: SymbolMapper(),
\* pd.concat, sort_values, os.makedirs, and to_csv failing before or after it
\* created the file.
AllFaults == {"SymbolMapper", "concat", "sort_values", "makedirs",
              "to_csv_open", "to_csv_write"}

(***************************************************************************)
(* The file system.                                                        *)
(***************************************************************************)
NoFiles == [dirs |-> {}, files |-> <<>>]

exists(filesystem, dir) == dir \in filesystem.dirs

makedirs(filesystem, dir) == [filesystem EXCEPT !.dirs = @ \cup {dir}]

\* dict[key] = value, and a file written at a path
Put(f, key, value) ==
    [k \in (DOMAIN f) \cup {key} |-> IF k = key THEN value ELSE f[k]]

write_file(filesystem, path, content) ==
    [filesystem EXCEPT !.files = Put(@, path, content)]

\* os.path.join(output_dir, f"{symbol}_{start_date}_to_{end_date}.csv"), by its parts
output_path(output_dir, sym, start, end) == <<output_dir, sym, start, end>>

(***************************************************************************)
(* Config modules.                                                         *)
(***************************************************************************)
Config(start, end, dir) ==
    [has_dates |-> TRUE, START_DATE |-> start, END_DATE |-> end,
     OUTPUT_DIRECTORY |-> dir]

\* getattr(config_module, 'OUTPUT_DIRECTORY', 'historical_data')
output_directory(cfg) ==
    IF cfg.OUTPUT_DIRECTORY = "unset" THEN "historical_data" ELSE cfg.OUTPUT_DIRECTORY

ConfigStart == [y |-> 2024, m |-> 1, d |-> 1]

\* The configs drawn: ranges of 1 .. maxChunks full 30-day chunks, with and
\* without the one day more that makes a last chunk of a single day; a single
\* day; an end before the start; a date that names no day; the last month of
\* year 9999; and a module without START_DATE.
Configs(maxChunks) ==
    LET s == _ymd2ord(ConfigStart.y, ConfigStart.m, ConfigStart.d) IN
    { Config(ConfigStart, strftime(s + CHUNK_DAYS * k - 1), "unset") :
        k \in 1 .. maxChunks }
    \cup { Config(ConfigStart, strftime(s + CHUNK_DAYS * k), "out") :
             k \in 0 .. maxChunks - 1 }
    \cup { Config(strftime(s + 1), ConfigStart, "unset"),
           Config(ConfigStart, [y |-> 2024, m |-> 2, d |-> 30], "unset"),
           Config([y |-> 9999, m |-> 12, d |-> 1], [y |-> 9999, m |-> 12, d |-> 31],
                  "unset"),
           [Config(ConfigStart, ConfigStart, "unset") EXCEPT !.has_dates = FALSE] }

(***************************************************************************)
(* Text of the symbol-list file.                                           *)
(***************************************************************************)
\* The text of a file and the symbols read from it are sequences of characters,
\* a character being its Unicode code point: 10 is "\n", 13 "\r", 12 form feed,
\* 32 the space, 83 "S", 84 "T".
\* The characters str.strip() removes: those for which str.isspace() is true.
Whitespace ==
    (9 .. 13) \cup (28 .. 32) \cup {133, 160, 5760} \cup (8192 .. 8202)
    \cup {8232, 8233, 8239, 8287, 12288}

\* Text mode with universal newlines: "\r\n" and "\r" are read as "\n".
RECURSIVE translate_newlines(_)
translate_newlines(text) ==
    IF text = <<>> THEN <<>>
    ELSE IF Head(text) = 13
    THEN IF Len(text) >= 2 /\ text[2] = 10
         THEN <<10>> \o translate_newlines(Tail(Tail(text)))
         ELSE <<10>> \o translate_newlines(Tail(text))
    ELSE <<Head(text)>> \o translate_newlines(Tail(text))

\* for line in f: each line up to and including its "\n" (10), the only line end
\* of a file object; the last line may lack it.
RECURSIVE lines_of(_)
lines_of(text) ==
    IF text = <<>> THEN <<>>
    ELSE LET ends == { i \in DOMAIN text : text[i] = 10 }
             k == IF ends = {} THEN Len(text)
                  ELSE CHOOSE i \in ends : \A j \in ends : i <= j
         IN  <<SubSeq(text, 1, k)>> \o lines_of(SubSeq(text, k + 1, Len(text)))

RECURSIVE lstrip(_)
lstrip(line) ==
    IF line # <<>> /\ Head(line) \in Whitespace THEN lstrip(Tail(line)) ELSE line

RECURSIVE rstrip(_)
rstrip(line) ==
    IF line # <<>> /\ line[Len(line)] \in Whitespace
    THEN rstrip(SubSeq(line, 1, Len(line) - 1))
    ELSE line

\* line.strip()
strip(line) == rstrip(lstrip(line))

NonEmpty(line) == line # <<>>

\* A variant of read_symbols that keeps the blank lines, as empty symbols.
read_symbols_keep_blank(content) ==
    LET lines == lines_of(translate_newlines(content))
    IN  [i \in DOMAIN lines |-> strip(lines[i])]

\* [line.strip() for line in f if line.strip()]
read_symbols(content) ==
    LET lines == lines_of(translate_newlines(content))
        stripped == [i \in DOMAIN lines |-> strip(lines[i])]
    IN  SelectSeq(stripped, NonEmpty)

(***************************************************************************)
(* Values of the variables a run does not use.                             *)
(***************************************************************************)
IdleSplit ==
    /\ start_date = ConfigStart
    /\ end_date = ConfigStart
    /\ chunk_days = CHUNK_DAYS

IdleEnv ==
    /\ config_module = Config(ConfigStart, ConfigStart, "unset")
    /\ source = {}
    /\ faults = {}
    /\ list_file = [readable |-> FALSE, content |-> <<>>]

IdleCall ==
    /\ symbol_mapper = "None"
    /\ symbol = <<>>
    /\ date_chunks = <<>>
    /\ chunk_i = 1
    /\ all_data = <<>>
    /\ output_file = Pending
    /\ fetched = <<>>
    /\ failure = "none"
    /\ fs_at_call = NoFiles
    /\ fs = NoFiles
    /\ events = <<>>

IdleBatch ==
    /\ symbols = <<>>
    /\ sym_i = 1
    /\ results = <<>>

(***************************************************************************)
(* Inputs of a direct call of split_date_range.                            *)
(***************************************************************************)
\* First days of the windows the dates are drawn from: before a leap day, before
\* a year's end, and the last days datetime can represent.
SplitAnchors ==
    { _ymd2ord(2024, 2, 26), _ymd2ord(2023, 12, 28), MAXORDINAL - MaxSpan }

\* Date strings that name no day.
BadDates == { [y |-> 2023, m |-> 2, d |-> 29], [y |-> 2024, m |-> 13, d |-> 1] }

\* chunk_days values: the small ones, one larger than any range drawn, one that
\* carries a date past 9999-12-31, and one past timedelta's range.
SplitChunkDays ==
    (1 .. MaxChunkDays) \cup {CHUNK_DAYS, MAXORDINAL, MAX_DELTA_DAYS + 2}

InitSplit ==
    /\ entry = "split"
    /\ pc = "split"
    /\ ret = Pending
    /\ \E a \in SplitAnchors :
         \/ /\ start_date \in { strftime(a + k) : k \in 0 .. MaxSpan }
            /\ end_date \in { strftime(a + k) : k \in 0 .. MaxSpan }
         \/ /\ start_date \in BadDates
            /\ end_date = strftime(a)
         \/ /\ start_date = strftime(a)
            /\ end_date \in BadDates
    /\ chunk_days \in SplitChunkDays
    /\ IdleEnv
    /\ IdleCall
    /\ IdleBatch

\* The call split_date_range(start_date, end_date, chunk_days).
CallSplit ==
    /\ pc = "split"
    /\ ret' = split_date_range(start_date, end_date, chunk_days)
    /\ pc' = "done"
    /\ UNCHANGED <<entry, splitVars, envVars, callVars, batchVars, fs, events>>

NextSplit == CallSplit

SpecSplit == InitSplit /\ [][NextSplit]_vars

(***************************************************************************)
(* download_chunk_data                                                     *)
(***************************************************************************)
\* What download_chunk_data returns when the client behaves as behaviour: the
\* client's frame when it is one with rows, an empty frame when the client
\* returned None or an empty frame (line 168) or raised (line 172).
download_chunk_data(behaviour) ==
    IF behaviour.kind = "frame" /\ ~empty(behaviour.frame)
    THEN behaviour.frame
    ELSE EmptyFrame

(***************************************************************************)
(* download_symbol_data_chunked                                            *)
(***************************************************************************)
\* An entry of the history: what happened (ev), for which symbol, at which chunk
\* (or position in the list), and for how long the run slept (a sleep).
Event(ev, sym, i) == [ev |-> ev, symbol |-> sym, i |-> i, secs |-> 0]
Sleep(ev, sym, i, secs) == [Event(ev, sym, i) EXCEPT !.secs = secs]

\* A variant of iteration_events that sleeps only after a fetch that gave rows.
iteration_events_sleep_on_data(sym, i, chunk_data) ==
    IF ~empty(chunk_data)
    THEN << Event("fetch", sym, i), Sleep("sleep_chunk", sym, i, 1) >>
    ELSE << Event("fetch", sym, i) >>

\* What one iteration of the loop over the chunks (lines 85-95) does, in order:
\* the fetch of chunk i (line 89) and time.sleep(1) (line 95).
iteration_events(sym, i, chunk_data) ==
    << Event("fetch", sym, i), Sleep("sleep_chunk", sym, i, 1) >>

\* A variant of next_chunk that fetches a chunk again when it gave nothing.
next_chunk_retry(i, chunk_data) == IF empty(chunk_data) THEN i ELSE i + 1

\* enumerate(date_chunks, 1): the chunk after chunk i, whatever chunk i gave.
next_chunk(i, chunk_data) == i + 1

\* The call ends with outcome: the run is done when it was the entry call, and
\* goes on in download_multiple_symbols otherwise.
ChunkedEnds(outcome) ==
    /\ output_file' = outcome
    /\ IF entry = "chunked"
       THEN pc' = "done" /\ ret' = outcome
       ELSE pc' = "m_record" /\ ret' = ret

\* A variant of accumulate that keeps the empty results too.
accumulate_all(data, chunk_data) == Append(data, chunk_data)

\* if chunk_data is not None and not chunk_data.empty: all_data.append(chunk_data)
accumulate(data, chunk_data) ==
    IF ~empty(chunk_data) THEN Append(data, chunk_data) ELSE data

\* Lines 67-71: the defaults of the arguments; SymbolMapper() is constructed,
\* outside the try, when no symbol_mapper was passed.
ChunkedEnter ==
    /\ pc = "c_enter"
    /\ fetched' = <<>>
    /\ fs_at_call' = fs
    /\ date_chunks' = <<>>
    /\ chunk_i' = 1
    /\ all_data' = <<>>
    /\ \E f \in IF symbol_mapper = "None"
                THEN {"none"} \cup (faults \cap {"SymbolMapper"})
                ELSE {"none"} :
         /\ failure' = f
         /\ IF f = "SymbolMapper"
            THEN /\ ChunkedEnds(Raise("SymbolMapper"))
                 /\ UNCHANGED symbol_mapper
            ELSE /\ symbol_mapper' = "mapper"
                 /\ pc' = "c_try"
                 /\ UNCHANGED <<ret, output_file>>
    /\ UNCHANGED <<entry, splitVars, envVars, symbol, batchVars, fs, events>>

\* Lines 73-83, with the except of lines 121-123: the dates of the config and
\* their split in chunks of 30 days.
ChunkedSplit ==
    /\ pc = "c_try"
    /\ IF ~config_module.has_dates
       THEN /\ failure' = "config"
            /\ ChunkedEnds(Return(<<>>))
            /\ UNCHANGED <<splitVars, date_chunks>>
       ELSE LET split == split_date_range(config_module.START_DATE,
                                          config_module.END_DATE, CHUNK_DAYS)
            IN  /\ start_date' = config_module.START_DATE
                /\ end_date' = config_module.END_DATE
                /\ UNCHANGED chunk_days
                /\ IF split.kind = "raise"
                   THEN /\ failure' = "split_date_range"
                        /\ ChunkedEnds(Return(<<>>))
                        /\ UNCHANGED date_chunks
                   ELSE /\ date_chunks' = split.value
                        /\ pc' = "c_loop"
                        /\ UNCHANGED <<failure, ret, output_file>>
    /\ UNCHANGED <<entry, envVars, symbol_mapper, symbol, chunk_i, all_data, fetched,
                   fs_at_call, batchVars, fs, events>>

\* Lines 85-95: one iteration of the loop over the chunks: the fetch of chunk i,
\* its accumulation, and the sleep.
ChunkedFetch ==
    /\ pc = "c_loop"
    /\ chunk_i <= Len(date_chunks)
    /\ \E behaviour \in source :
         LET chunk_data == download_chunk_data(behaviour) IN
         /\ all_data' = accumulate(all_data, chunk_data)
         /\ fetched' = Append(fetched, [client |-> behaviour.kind, data |-> chunk_data])
         /\ events' = events \o iteration_events(symbol, chunk_i, chunk_data)
         /\ chunk_i' = next_chunk(chunk_i, chunk_data)
    /\ UNCHANGED <<entry, pc, ret, splitVars, envVars, symbol_mapper, symbol,
                   date_chunks, output_file, failure, fs_at_call, batchVars, fs>>

\* Lines 117-119: no chunk gave data.
ChunkedNoData ==
    /\ pc = "c_loop"
    /\ chunk_i > Len(date_chunks)
    /\ all_data = <<>>
    /\ ChunkedEnds(Return(<<>>))
    /\ UNCHANGED <<entry, splitVars, envVars, symbol_mapper, symbol, date_chunks,
                   chunk_i, all_data, fetched, failure, fs_at_call, batchVars, fs,
                   events>>

\* The file system after lines 108-113 when fault happens (or "none").
persisted(filesystem, output_dir, path, content, fault) ==
    LET made == IF exists(filesystem, output_dir) THEN filesystem
                ELSE makedirs(filesystem, output_dir)
    IN  CASE fault \in {"concat", "sort_values", "makedirs"} -> filesystem
          [] fault = "to_csv_open" -> made
          [] fault = "to_csv_write" -> write_file(made, path, [content EXCEPT !.rows = <<>>])
          [] OTHER -> write_file(made, path, content)

\* What may fail in lines 97-113: sort_values is called, and so can fail, only
\* when the data has a timestamp or a date column, and os.makedirs only when the
\* directory does not exist.
persist_faults(may_fail, filesystem, output_dir, columns) ==
    {"none"} \cup (may_fail \cap {"concat", "to_csv_open", "to_csv_write"})
             \cup (IF columns \cap {"timestamp", "date"} = {} THEN {}
                   ELSE may_fail \cap {"sort_values"})
             \cup (IF exists(filesystem, output_dir) THEN {}
                   ELSE may_fail \cap {"makedirs"})

\* Lines 97-116, with the except of lines 121-123: the chunks are combined,
\* sorted and written.
ChunkedPersist ==
    /\ pc = "c_loop"
    /\ chunk_i > Len(date_chunks)
    /\ all_data # <<>>
    /\ \E fault \in persist_faults(faults, fs, output_directory(config_module),
                                   concat(all_data).columns) :
       \E combined_data \in sort_by_time(concat(all_data)) :
         LET output_dir == output_directory(config_module)
             path == output_path(output_dir, symbol, start_date, end_date)
         IN  /\ failure' = fault
             /\ fs' = persisted(fs, output_dir, path, combined_data, fault)
             /\ IF fault = "none"
                THEN /\ events' = Append(events, Event("to_csv", symbol, chunk_i))
                     /\ ChunkedEnds(Return(path))
                ELSE /\ events' = events
                     /\ ChunkedEnds(Return(<<>>))
    /\ UNCHANGED <<entry, splitVars, envVars, symbol_mapper, symbol, date_chunks,
                   chunk_i, all_data, fetched, fs_at_call, batchVars>>

(***************************************************************************)
(* download_multiple_symbols                                               *)
(***************************************************************************)
\* Lines 185-191: the shared SymbolMapper is constructed, outside any try of this
\* function; download_from_list_file catches what it raises (lines 233-235).
MultipleEnter ==
    /\ pc = "m_enter"
    /\ \E f \in {"none"} \cup (faults \cap {"SymbolMapper"}) :
         IF f = "SymbolMapper"
         THEN /\ pc' = "done"
              /\ ret' = IF entry = "listfile" THEN Return(<<>>)
                        ELSE Raise("SymbolMapper")
              /\ UNCHANGED <<symbol_mapper, results, sym_i>>
         ELSE /\ symbol_mapper' = "mapper"
              /\ results' = <<>>
              /\ sym_i' = 1
              /\ pc' = "m_loop"
              /\ UNCHANGED ret
    /\ UNCHANGED <<entry, splitVars, envVars, symbol, date_chunks, chunk_i, all_data,
                   output_file, fetched, failure, fs_at_call, symbols, fs, events>>

\* Lines 193-198: the next symbol of the list, and the call of
\* download_symbol_data_chunked with the shared mapper.
MultipleNextSymbol ==
    /\ pc = "m_loop"
    /\ sym_i <= Len(symbols)
    /\ symbol' = symbols[sym_i]
    /\ events' = Append(events, Event("call", symbols[sym_i], sym_i))
    /\ pc' = "c_enter"
    /\ UNCHANGED <<entry, ret, splitVars, envVars, symbol_mapper, date_chunks, chunk_i,
                   all_data, output_file, fetched, failure, fs_at_call, batchVars, fs>>

\* A variant of record_result that records the successful downloads only.
record_only_success(res, sym, outcome) ==
    IF outcome.kind = "return" /\ outcome.value # <<>>
    THEN Put(res, sym, outcome.value)
    ELSE res

\* Lines 200-212: the result of the symbol is recorded, with the sleep when the
\* call returned (lines 200-208) and without when it raised (lines 210-212).
record_result(res, sym, outcome) ==
    IF outcome.kind = "return" /\ outcome.value # <<>>
    THEN Put(res, sym, outcome.value)
    ELSE Put(res, sym, <<>>)

record_events(sym, i, outcome) ==
    IF outcome.kind = "return"
    THEN << Event("record", sym, i), Sleep("sleep_symbol", sym, i, 1) >>
    ELSE << Event("record", sym, i) >>

MultipleRecord ==
    /\ pc = "m_record"
    /\ results' = record_result(results, symbol, output_file)
    /\ events' = events \o record_events(symbol, sym_i, output_file)
    /\ sym_i' = sym_i + 1
    /\ pc' = "m_loop"
    /\ UNCHANGED <<entry, ret, splitVars, envVars, callVars, symbols, fs>>

\* Line 214.
MultipleReturn ==
    /\ pc = "m_loop"
    /\ sym_i > Len(symbols)
    /\ ret' = Return(results)
    /\ pc' = "done"
    /\ UNCHANGED <<entry, splitVars, envVars, callVars, batchVars, fs, events>>

(***************************************************************************)
(* download_from_list_file                                                 *)
(***************************************************************************)
\* Lines 227-235: the file is read, and its symbols are passed on; a file that
\* cannot be opened or read gives the empty mapping.
ListFileRead ==
    /\ pc = "l_open"
    /\ IF list_file.readable
       THEN /\ symbols' = read_symbols(list_file.content)
            /\ pc' = "m_enter"
            /\ UNCHANGED ret
       ELSE /\ ret' = Return(<<>>)
            /\ pc' = "done"
            /\ UNCHANGED symbols
    /\ UNCHANGED <<entry, splitVars, envVars, callVars, sym_i, results, fs, events>>

(***************************************************************************)
(* Runs.                                                                   *)
(***************************************************************************)
\* "SBIN" and "TCS"
SBIN == <<83, 66, 73, 78>>
TCS == <<84, 67, 83>>

\* A direct call download_symbol_data_chunked(symbol, config_module[, symbol_mapper]).
InitChunked ==
    /\ entry = "chunked"
    /\ pc = "c_enter"
    /\ ret = Pending
    /\ IdleSplit
    /\ IdleBatch
    /\ config_module \in Configs(MaxChunks)
    /\ \E cols \in Schemas : source = Behaviours(cols)
    /\ faults = AllFaults
    /\ list_file = [readable |-> FALSE, content |-> <<>>]
    /\ symbol_mapper \in {"None", "mapper"}
    /\ symbol = SBIN
    /\ date_chunks = <<>>
    /\ chunk_i = 1
    /\ all_data = <<>>
    /\ output_file = Pending
    /\ fetched = <<>>
    /\ failure = "none"
    /\ fs \in { NoFiles,
                 makedirs(NoFiles, output_directory(config_module)),
                 write_file(makedirs(NoFiles, output_directory(config_module)),
                            output_path(output_directory(config_module), symbol,
                                        config_module.START_DATE,
                                        config_module.END_DATE),
                            StaleFrame) }
    /\ fs_at_call = fs
    /\ events = <<>>

NextChunked ==
    \/ ChunkedEnter
    \/ ChunkedSplit
    \/ ChunkedFetch
    \/ ChunkedNoData
    \/ ChunkedPersist

SpecChunked == InitChunked /\ [][NextChunked]_vars

\* The symbol lists of a direct call download_multiple_symbols(symbols, config_module).
SymbolLists ==
    UNION { [1 .. n -> {SBIN, TCS}] : n \in 0 .. MaxSymbols }

\* The contents of a symbol-list file: every text of up to MaxFileLen characters
\* of FileChars, and the text of the specification's example.
\* "S", "T", the space, "\n", "\r" and the form feed.
FileChars == {83, 84, 32, 10, 13, 12}

FileTexts ==
    UNION { [1 .. n -> FileChars] : n \in 0 .. MaxFileLen }
    \cup { SBIN \o <<10, 10>> \o TCS \o <<10>> }

\* A call download_multiple_symbols(symbols, config_module), or a call
\* download_from_list_file(file_path, config_module) on one of a few files.
InitBatch ==
    /\ pc \in {"m_enter", "l_open"}
    /\ entry = IF pc = "m_enter" THEN "multiple" ELSE "listfile"
    /\ ret = Pending
    /\ IdleSplit
    /\ IdleCall
    /\ config_module \in Configs(MaxBatchChunks)
    /\ source = BatchBehaviours
    /\ faults = AllFaults
    /\ IF entry = "multiple"
       THEN /\ symbols \in SymbolLists
            /\ list_file = [readable |-> FALSE, content |-> <<>>]
       ELSE /\ symbols = <<>>
            /\ list_file \in { [readable |-> FALSE, content |-> <<>>],
                               [readable |-> TRUE, content |-> <<>>],
                               [readable |-> TRUE,
                                content |-> SBIN \o <<10, 10>> \o TCS \o <<10>>] }
    /\ sym_i = 1
    /\ results = <<>>

NextBatch ==
    \/ ListFileRead
    \/ MultipleEnter
    \/ MultipleNextSymbol
    \/ MultipleRecord
    \/ MultipleReturn
    \/ NextChunked

SpecBatch == InitBatch /\ [][NextBatch]_vars

\* A call download_from_list_file(file_path, config_module) on any text, with a
\* data client that answers every fetch of the run alike.
InitListFile ==
    /\ entry = "listfile"
    /\ pc = "l_open"
    /\ ret = Pending
    /\ IdleSplit
    /\ IdleCall
    /\ IdleBatch
    /\ config_module = Config(ConfigStart, ConfigStart, "unset")
    /\ source = CalmBehaviours
    /\ faults = {}
    /\ \/ list_file \in { [readable |-> TRUE, content |-> t] : t \in FileTexts }
       \/ list_file = [readable |-> FALSE, content |-> <<>>]

SpecListFile == InitListFile /\ [][NextBatch]_vars

(***************************************************************************)
(* Properties of split_date_range (SpecSplit).                             *)
(***************************************************************************)
Ord(date) == _ymd2ord(date.y, date.m, date.d)

\* The preconditions of split_date_range: two dates, start <= end, chunk_days >= 1.
ValidSplitCall ==
    /\ strptime(start_date).kind = "return"
    /\ strptime(end_date).kind = "return"
    /\ Ord(start_date) <= Ord(end_date)
    /\ chunk_days >= 1

SplitReturned == entry = "split" /\ pc = "done"

\* chunks split [start, end] in consecutive chunks of at most days days.
IsPartition(chunks, start, end, days) ==
    /\ Len(chunks) >= 1
    /\ chunks[1][1] = start
    /\ chunks[Len(chunks)][2] = end
    /\ \A i \in DOMAIN chunks :
         /\ Ord(chunks[i][1]) <= Ord(chunks[i][2])
         /\ Ord(chunks[i][2]) - Ord(chunks[i][1]) + 1 <= days
    /\ \A i \in 2 .. Len(chunks) : Ord(chunks[i][1]) = Ord(chunks[i - 1][2]) + 1

\* C1: for every start <= end and chunk_days >= 1, split_date_range returns a
\* non-empty sequence of chunks: the first starts at start, the last ends at end,
\* each has chunk_start <= chunk_end and at most chunk_days days, and each chunk
\* after the first starts the day after the one before ends.
C1_SplitPartitions ==
    (SplitReturned /\ ValidSplitCall)
        => /\ ret.kind = "return"
           /\ IsPartition(ret.value, start_date, end_date, chunk_days)

\* The same, for the calls in which no date the loop computes leaves datetime's
\* range: end_date + chunk_days is a date up to 9999-12-31.
SplitPartitionsInRange ==
    (SplitReturned /\ ValidSplitCall /\ Ord(end_date) + chunk_days <= MAXORDINAL)
        => /\ ret.kind = "return"
           /\ IsPartition(ret.value, start_date, end_date, chunk_days)

\* C2: for every start <= end and chunk_days >= the number of days of
\* [start, end], split_date_range returns exactly the chunk (start, end); so a
\* range of one day gives one chunk of that day for every chunk_days >= 1.
C2_SingleChunk ==
    (/\ SplitReturned
     /\ ValidSplitCall
     /\ chunk_days >= Ord(end_date) - Ord(start_date) + 1)
        => /\ ret.kind = "return"
           /\ ret.value = << <<start_date, end_date>> >>

\* The same, for the calls in which start_date + chunk_days - 1 and end_date + 1
\* are dates up to 9999-12-31.
SingleChunkInRange ==
    (/\ SplitReturned
     /\ ValidSplitCall
     /\ chunk_days >= Ord(end_date) - Ord(start_date) + 1
     /\ Ord(start_date) + chunk_days - 1 <= MAXORDINAL
     /\ Ord(end_date) + 1 <= MAXORDINAL)
        => /\ ret.kind = "return"
           /\ ret.value = << <<start_date, end_date>> >>

(***************************************************************************)
(* Properties of download_symbol_data_chunked (SpecChunked).               *)
(***************************************************************************)
\* The call of download_symbol_data_chunked has ended.
CallEnded == pc \in {"done", "m_record"} /\ output_file.kind # "pending"

\* The call reached the end of its loop over the chunks.
LoopCompleted ==
    /\ CallEnded
    /\ failure \notin {"SymbolMapper", "config", "split_date_range"}

\* What download_chunk_data returned, per chunk of the call.
FetchedData == [i \in DOMAIN fetched |-> fetched[i].data]

AnyData == \E i \in DOMAIN fetched : ~empty(fetched[i].data)

\* The path the call writes to.
OutputPath ==
    output_path(output_directory(config_module), symbol,
                config_module.START_DATE, config_module.END_DATE)

\* C3: if every chunk fetch of the call returned an empty result, the call returns
\* the empty string and has created or written no file and no directory.
C3_NoDataNoFile ==
    (LoopCompleted /\ ~AnyData)
        => /\ output_file = Return(<<>>)
           /\ fs = fs_at_call

\* C3's case: three chunks were fetched, all empty, and the call returned "".
C3_Witness ==
    /\ entry = "chunked"
    /\ pc = "done"
    /\ Len(fetched) = 3
    /\ ~AnyData
    /\ ret = Return(<<>>)
    /\ fs = fs_at_call

Count(rows, r) == Cardinality({ i \in DOMAIN rows : rows[i] = r })

\* a and b hold the same rows, each as often.
SameRows(a, b) ==
    /\ Len(a) = Len(b)
    /\ \A i \in DOMAIN a : Count(a, a[i]) = Count(b, a[i])

Ascending(rows, by) ==
    \A i \in 1 .. Len(rows) - 1 : rows[i][by] <= rows[i + 1][by]

\* The output file exists and holds the rows of all fetched chunks and no other,
\* ascending in timestamp, or in date when there is no timestamp, or just as
\* fetched when there is neither.
OutputFileRight ==
    /\ OutputPath \in DOMAIN fs.files
    /\ LET written == fs.files[OutputPath]
           rows == concat_rows(FetchedData)
       IN  /\ SameRows(written.rows, rows)
           /\ IF "timestamp" \in written.columns THEN Ascending(written.rows, "timestamp")
              ELSE IF "date" \in written.columns THEN Ascending(written.rows, "date")
              ELSE written.rows = rows

PersistSteps == {"concat", "sort_values", "makedirs", "to_csv_open", "to_csv_write"}

\* The call left every file but its own output file as it was.
OtherFilesKept ==
    /\ DOMAIN fs.files \ {OutputPath} = DOMAIN fs_at_call.files \ {OutputPath}
    /\ \A p \in DOMAIN fs.files \ {OutputPath} : fs.files[p] = fs_at_call.files[p]

DataButStepRaised == CallEnded /\ AnyData /\ failure \in PersistSteps

C6_NeverRaises ==
    (entry = "chunked" /\ pc = "done")
        => /\ ret.kind = "return"
           /\ (failure # "none" => ret.value = <<>>)

\* The same, for the calls that are passed a symbol_mapper (what fails then fails
\* inside the try of lines 73-123).
NeverRaisesGivenMapper ==
    (CallEnded /\ failure # "SymbolMapper")
        => /\ output_file.kind = "return"
           /\ (failure # "none" => output_file.value = <<>>)

IsFetch(e) == e.ev = "fetch"

\* C9: in one call over N chunks the fetcher is called once per chunk, in the
\* order 1..N, whatever the earlier chunks gave; nothing is written before all
\* N fetches are done.
C9_OneFetchPerChunk ==
    LET fetches == SelectSeq(events, IsFetch) IN
    /\ \A k \in DOMAIN fetches : fetches[k].i = k /\ fetches[k].symbol = symbol
    /\ Len(fetches) <= Len(date_chunks)
    /\ Len(fetches) = Len(fetched)
    /\ LoopCompleted => Len(fetches) = Len(date_chunks)
    /\ fs # fs_at_call => Len(fetches) = Len(date_chunks)
    /\ \A k \in DOMAIN events :
         events[k].ev = "to_csv" => /\ Len(fetches) = Len(date_chunks)
                                    /\ \A j \in DOMAIN events : IsFetch(events[j]) => j < k

\* C9's case: the first fetch failed, the second gave nothing, the third gave
\* rows, and the file was written after the three.
C9_Witness ==
    /\ entry = "chunked"
    /\ pc = "done"
    /\ Len(date_chunks) = 3
    /\ Len(SelectSeq(events, IsFetch)) = 3
    /\ Len(fetched) = 3
    /\ fetched[1].client = "raise"
    /\ fetched[2].client = "none"
    /\ fetched[3].client = "frame" /\ ~empty(fetched[3].data)
    /\ events[Len(events)].ev = "to_csv"

(***************************************************************************)
(* Properties of download_multiple_symbols and download_from_list_file     *)
(* (SpecBatch, SpecListFile).                                              *)
(***************************************************************************)
\* download_multiple_symbols went through its loop and returned its results.
MultipleReturned ==
    /\ entry \in {"multiple", "listfile"}
    /\ pc = "done"
    /\ symbol_mapper = "mapper"

IsCall(e) == e.ev = "call"

\* Where in the history the download of the k-th symbol of the list begins.
CallAt(k) == CHOOSE p \in DOMAIN events : events[p].ev = "call" /\ events[p].i = k

\* The part of the history that belongs to the download of the k-th symbol.
Segment(k) ==
    { j \in DOMAIN events :
        /\ CallAt(k) < j
        /\ k < Len(symbols) => j < CallAt(k + 1) }

\* The download of the k-th symbol wrote its output file.
Succeeded(k) == \E j \in Segment(k) : events[j].ev = "to_csv"

LastOf(sym) ==
    CHOOSE k \in DOMAIN symbols :
        /\ symbols[k] = sym
        /\ \A j \in DOMAIN symbols : symbols[j] = sym => j <= k

\* C5: download_multiple_symbols downloads every symbol of the list, in the order
\* of the list, whatever the earlier ones gave; the mapping it returns has one
\* key per requested symbol, with the output path when the symbol's download
\* succeeded and the empty string when it failed.
C5_EverySymbolRecorded ==
    MultipleReturned
        => /\ ret.kind = "return"
           /\ [k \in DOMAIN SelectSeq(events, IsCall) |->
                 SelectSeq(events, IsCall)[k].symbol] = symbols
           /\ DOMAIN ret.value = { symbols[k] : k \in DOMAIN symbols }
           /\ \A sym \in DOMAIN ret.value :
                ret.value[sym] =
                    IF Succeeded(LastOf(sym))
                    THEN output_path(output_directory(config_module), sym,
                                     config_module.START_DATE, config_module.END_DATE)
                    ELSE <<>>

\* C5's case: of [SBIN, TCS], the download of SBIN failed and that of TCS wrote
\* its file.
C5_Witness ==
    /\ entry = "multiple"
    /\ pc = "done"
    /\ symbols = <<SBIN, TCS>>
    /\ Len(date_chunks) = 2
    /\ ~Succeeded(1)
    /\ Succeeded(2)
    /\ ret.kind = "return"
    /\ ret.value[SBIN] = <<>>
    /\ ret.value[TCS] # <<>>
    /\ ret.value[TCS] \in DOMAIN fs.files

\* C7: download_multiple_symbols and download_from_list_file always return a
\* mapping and never raise, whatever fails underneath; when the list file cannot
\* be read the mapping is empty and no download was begun.
C7_BatchNeverRaises ==
    (entry \in {"multiple", "listfile"} /\ pc = "done")
        => /\ ret.kind = "return"
           /\ (entry = "listfile" /\ ~list_file.readable)
                  => (ret.value = <<>> /\ events = <<>>)

\* The same, for download_from_list_file alone, whose try (lines 227-235) spans
\* the whole call.
ListFileNeverRaises ==
    (entry = "listfile" /\ pc = "done")
        => /\ ret.kind = "return"
           /\ ~list_file.readable => (ret.value = <<>> /\ events = <<>>)

LineEnds == {10, 13}

\* The places of the file's text where a non-blank line has its first character
\* that is no whitespace.
SymbolStarts(text) ==
    { p \in DOMAIN text :
        /\ text[p] \notin Whitespace
        /\ \A q \in 1 .. p - 1 :
             text[q] \notin Whitespace => \E t \in q + 1 .. p - 1 : text[t] \in LineEnds }

\* The place of the last character that is no whitespace, on the line of place p.
SymbolEnd(text, p) ==
    CHOOSE e \in p .. Len(text) :
        /\ text[e] \notin Whitespace
        /\ \A t \in p .. e : text[t] \notin LineEnds
        /\ \A f \in e + 1 .. Len(text) :
             text[f] \notin Whitespace => \E t \in e + 1 .. f : text[t] \in LineEnds

\* The non-blank lines of the text, each without the whitespace around it.
NonBlankLines(text) ==
    LET starts == SymbolStarts(text)
        nth(k) == CHOOSE p \in starts : Cardinality({ q \in starts : q < p }) = k - 1
    IN  [k \in 1 .. Cardinality(starts) |-> SubSeq(text, nth(k), SymbolEnd(text, nth(k)))]

\* C8: download_from_list_file passes to download_multiple_symbols exactly the
\* non-blank lines of the file, in the order of the file, each without its line
\* end and the whitespace around it; the text "SBIN\n\nTCS\n" gives [SBIN, TCS].
C8_SymbolsAreNonBlankLines ==
    (entry = "listfile" /\ pc # "l_open" /\ list_file.readable)
        => /\ symbols = NonBlankLines(list_file.content)
           /\ list_file.content = SBIN \o <<10, 10>> \o TCS \o <<10>>
                  => symbols = <<SBIN, TCS>>
           /\ MultipleReturned
                  => [k \in DOMAIN SelectSeq(events, IsCall) |->
                        SelectSeq(events, IsCall)[k].symbol] = NonBlankLines(list_file.content)

\* C8's case: the file of the example was read, and SBIN and TCS were downloaded.
C8_Witness ==
    /\ entry = "listfile"
    /\ pc = "done"
    /\ list_file.content = SBIN \o <<10, 10>> \o TCS \o <<10>>
    /\ symbols = <<SBIN, TCS>>
    /\ DOMAIN ret.value = {SBIN, TCS}

\* The sleeps after a chunk's fetch in the download of the k-th symbol.
ChunkSleeps(k) == { j \in Segment(k) : events[j].ev = "sleep_chunk" }

\* C10: every chunk fetch is followed by a sleep of 1, whatever the fetch gave,
\* and every recorded result by a sleep of 1; so no two calls of the data client
\* come without a sleep between them, and a symbol has as many sleeps after
\* chunks as it has chunks.
C10_SleepAfterEveryFetch ==
    /\ \A k \in DOMAIN events :
         IsFetch(events[k])
             => /\ k < Len(events)
                /\ events[k + 1] = Sleep("sleep_chunk", events[k].symbol, events[k].i, 1)
    /\ \A k \in DOMAIN events :
         events[k].ev = "record"
             => /\ k < Len(events)
                /\ events[k + 1].ev = "sleep_symbol"
                /\ events[k + 1].secs = 1
    /\ \A j, k \in DOMAIN events :
         (j < k /\ IsFetch(events[j]) /\ IsFetch(events[k]))
             => \E m \in j + 1 .. k - 1 : events[m].secs >= 1
    /\ MultipleReturned
           => \A k \in DOMAIN symbols :
                /\ Cardinality(ChunkSleeps(k)) = Len(date_chunks)
                /\ Cardinality({ j \in Segment(k) : IsFetch(events[j]) }) = Len(date_chunks)

\* C10's case: a batch of two symbols over two chunks each, with a fetch that
\* failed, one that gave nothing and one that gave rows.
C10_Witness ==
    /\ entry = "multiple"
    /\ pc = "done"
    /\ Len(symbols) = 2
    /\ Len(date_chunks) = 2
    /\ \E j \in DOMAIN fetched : fetched[j].client = "raise"
    /\ \E j \in DOMAIN fetched : fetched[j].client = "frame"
    /\ Cardinality({ j \in DOMAIN events : events[j].ev = "sleep_chunk" }) = 4
    /\ Cardinality({ j \in DOMAIN events : events[j].ev = "sleep_symbol" }) = 2

====
